---- MODULE Spec2Model ----
(***************************************************************************)
(* A model of scripts/IHKScraper/extractToken.py: the IHKScraper class     *)
(* (authenticate, api_request, get_berufsbilder_check, close) and main().  *)
(*                                                                         *)
(* Strings that the code inspects character by character (the telemetry    *)
(* log, its JSON serialisation, the bearer token) are sequences of         *)
(* one-character strings.  The browser (Selenium) and the HTTP client      *)
(* (requests) are the environment: every call into them has the outcomes   *)
(* the library can produce, chosen nondeterministically.                   *)
(***************************************************************************)
EXTENDS Integers, Sequences, FiniteSets, TLC

VARIABLES
    config,        \* IHKConfig: [username, password]
    driver,        \* self.driver: 0 is None, otherwise a browser id
    session,       \* self.session: 0 is None, otherwise an HTTP session id
    bearer_token,  \* self.bearer_token: <<>> is None, otherwise the token
    pc,            \* position inside authenticate(); "idle" between calls
    err,           \* the exception raised by a step of the current authenticate()
    launched,      \* number of browser instances started so far
    quitCalls,     \* per browser id: number of driver.quit() calls on it
    created,       \* number of requests.Session objects constructed so far
    jar,           \* per HTTP session id: its cookie store (name -> value)
    closeCalls,    \* per HTTP session id: number of session.close() calls
    builtFrom,     \* the token and the cookie list of the authenticate()
                   \* call that built self.session
    authCalls,     \* number of authenticate() calls started
    closeCount,    \* number of close() calls made
    mainPc,        \* position inside main(); "none" when a caller drives
    events,        \* browser interactions of the current authenticate() call
    shots,         \* screenshot attempts of the current authenticate() call
    logs,          \* the telemetry log read by the current authenticate()
    cookiesRead,   \* the cookie list read by the current authenticate()
    preToken,      \* bearer_token when the current authenticate() started
    preSession,    \* session when the current authenticate() started
    lastCall,      \* the last public call and how it ended
    lastRequest,   \* the HTTP request issued by the last api_request()
    harvested,     \* whether `logs` was read, and the result of the search
    succeeded      \* whether some authenticate() call has returned normally

vars == <<config, driver, session, bearer_token, pc, err, launched, quitCalls,
          created, jar, closeCalls, builtFrom, authCalls, closeCount, mainPc,
          events, shots, logs, cookiesRead, preToken, preSession, lastCall,
          lastRequest, harvested, succeeded>>

(***************************************************************************)
(* Bounds of the model.                                                    *)
(***************************************************************************)
MaxAuthCalls == 2
MaxCloseCalls == 2
MaxRecords == 2
MaxCookies == 2

(***************************************************************************)
(* Strings as sequences of characters.                                     *)
(***************************************************************************)
RECURSIVE Concat(_)
Concat(ss) == IF ss = <<>> THEN <<>> ELSE Head(ss) \o Concat(Tail(ss))

Quote == "\""
Backslash == "\\"

\* "Bearer " : the literal part of token_pattern
BearerLiteral == <<"B", "e", "a", "r", "e", "r", " ">>

\* [A-Za-z0-9\-_\.] : the character class of token_pattern
TokenChars ==
    {"A", "B", "C", "D", "E", "F", "G", "H", "I", "J", "K", "L", "M",
     "N", "O", "P", "Q", "R", "S", "T", "U", "V", "W", "X", "Y", "Z",
     "a", "b", "c", "d", "e", "f", "g", "h", "i", "j", "k", "l", "m",
     "n", "o", "p", "q", "r", "s", "t", "u", "v", "w", "x", "y", "z",
     "0", "1", "2", "3", "4", "5", "6", "7", "8", "9", "-", "_", "."}

\* s has the literal lit at position i
HasAt(s, lit, i) ==
    /\ i >= 1
    /\ i + Len(lit) - 1 <= Len(s)
    /\ \A k \in 1..Len(lit) : s[i + k - 1] = lit[k]

\* the end of the maximal run of token characters of s that starts at j
RECURSIVE RunEnd(_, _)
RunEnd(s, j) ==
    IF j <= Len(s) /\ s[j] \in TokenChars THEN RunEnd(s, j + 1) ELSE j - 1

(***************************************************************************)
(* json.dumps(logs) of _extract_bearer_token.  A log entry of the          *)
(* performance log is a dict with the keys level, message and timestamp;   *)
(* the model varies the message.  json.dumps (ensure_ascii) escapes the    *)
(* quote, the backslash, the newline and every non-ASCII character, and    *)
(* separates items by ", " and keys from values by ": ".                   *)
(***************************************************************************)
Newline == "\n"
NonAscii == "é"

EscapeChar(c) ==
    IF c = Quote THEN <<Backslash, Quote>>
    ELSE IF c = Backslash THEN <<Backslash, Backslash>>
    ELSE IF c = Newline THEN <<Backslash, "n">>
    ELSE IF c = NonAscii THEN <<Backslash, "u", "0", "0", "e", "9">>
    ELSE <<c>>

RECURSIVE EscapeString(_)
EscapeString(s) ==
    IF s = <<>> THEN <<>> ELSE EscapeChar(Head(s)) \o EscapeString(Tail(s))

DumpString(s) == <<Quote>> \o EscapeString(s) \o <<Quote>>

KeyLevel == <<"l", "e", "v", "e", "l">>
KeyMessage == <<"m", "e", "s", "s", "a", "g", "e">>
KeyTimestamp == <<"t", "i", "m", "e", "s", "t", "a", "m", "p">>
LevelInfo == <<"I", "N", "F", "O">>
ItemSeparator == <<",", " ">>
KeySeparator == <<":", " ">>

DumpEntry(message) ==
    Concat(<< <<"{">>,
              DumpString(KeyLevel), KeySeparator, DumpString(LevelInfo),
              ItemSeparator,
              DumpString(KeyMessage), KeySeparator, DumpString(message),
              ItemSeparator,
              DumpString(KeyTimestamp), KeySeparator, <<"0">>,
              <<"}">> >>)

RECURSIVE DumpEntries(_)
DumpEntries(entries) ==
    IF entries = <<>> THEN <<>>
    ELSE IF Len(entries) = 1 THEN DumpEntry(entries[1])
    ELSE DumpEntry(Head(entries)) \o ItemSeparator \o DumpEntries(Tail(entries))

json_dumps(entries) == <<"[">> \o DumpEntries(entries) \o <<"]">>

(***************************************************************************)
(* re.search(token_pattern, log_data): the leftmost position at which      *)
(* "Bearer " is followed by at least one token character; group(1) is the  *)
(* greedy (maximal) run of token characters after it.                      *)
(***************************************************************************)
MatchStarts(s) ==
    {i \in 1..Len(s) :
        /\ HasAt(s, BearerLiteral, i)
        /\ i + Len(BearerLiteral) <= Len(s)
        /\ s[i + Len(BearerLiteral)] \in TokenChars}

Min(S) == CHOOSE x \in S : \A y \in S : x <= y
Max(S) == CHOOSE x \in S : \A y \in S : x >= y

\* variant: the rightmost match instead of the leftmost
SearchStartLast(s) == Max(MatchStarts(s))
\* re.search scans from the left: the leftmost match
SearchStart(s) == Min(MatchStarts(s))

\* variant: a non-greedy group, one character long
GroupEndLazy(s, j) == j
\* the group ([...]+) is greedy
GroupEnd(s, j) == RunEnd(s, j)

NoMatch == [found |-> FALSE, token |-> <<>>]

re_search(s) ==
    IF MatchStarts(s) = {} THEN NoMatch
    ELSE LET j == SearchStart(s) + Len(BearerLiteral)
         IN  [found |-> TRUE, token |-> SubSeq(s, j, GroupEnd(s, j))]

\* variant: the messages joined without the JSON structure between them
SerializeJoined(entries) == Concat(entries)
\* line 179: log_data = json.dumps(logs)
Serialize(entries) == json_dumps(entries)

\* lines 178-192 of _extract_bearer_token, after the log has been read
ExtractToken(entries) == re_search(Serialize(entries))

(***************************************************************************)
(* Program constants.                                                      *)
(***************************************************************************)
ConsentTimeout == 3
LoginTimeout == 10
SettleDelay == 5
StatusOk == 200

base_url == "https://bildung.ihk.de"
api_base_url == "https://service.ihk.de/anwender/anwender-api/v1"
ihk_nummer == "108"
organisation_nummer == "560628108"
user_agent == "Mozilla/5.0"

(***************************************************************************)
(* Exceptions.  `at` is the step of the flow that raised it.               *)
(***************************************************************************)
NoErr == [type |-> "none", what |-> "none", at |-> "none", status |-> 0]
Raised(type, what, at) == [type |-> type, what |-> what, at |-> at, status |-> 0]

MissingCredentials == Raised("ValueError", "Username and password must be provided", "credentials")
TokenNotFound == Raised("ValueError", "No bearer token found in performance logs", "token_search")
NotAuthenticated == Raised("ValueError", "Must authenticate before making API requests", "api_request")

(***************************************************************************)
(* Inputs of the environment.                                              *)
(***************************************************************************)
Usernames == {"", "user"}
Passwords == {"", "secret"}

SpecToken == <<"a", "b", "c", ".", "d", "e", "f", "-", "1", "2", "3", "_", "A", "B", "C">>
OtherToken == <<"x", ".", "y">>

\* messages of performance-log entries
MsgPlain == <<"o", "k">>
MsgOneToken == <<Quote>> \o BearerLiteral \o SpecToken \o <<Quote>>
MsgTwoTokens == BearerLiteral \o OtherToken \o <<Quote, ";">> \o BearerLiteral \o SpecToken
MsgBareLiteral == <<"x", " ">> \o BearerLiteral
MsgTokenChars == <<"z", "z", "=">>
MsgSplitHead == <<"B", "e", "a", "r">>
MsgSplitTail == <<"e", "r", " ", "q", "1">>
MsgNonAscii == BearerLiteral \o <<NonAscii, "1">>
MsgLowerCase == <<"b", "e", "a", "r", "e", "r", " ">> \o OtherToken
MsgNewline == BearerLiteral \o <<Newline>> \o BearerLiteral \o OtherToken \o <<Backslash>>

Messages == {MsgPlain, MsgOneToken, MsgTwoTokens, MsgBareLiteral, MsgTokenChars,
             MsgSplitHead, MsgSplitTail, MsgNonAscii, MsgLowerCase, MsgNewline}

RECURSIVE SeqsUpTo(_, _)
SeqsUpTo(S, n) ==
    IF n = 0 THEN {<<>>}
    ELSE LET shorter == SeqsUpTo(S, n - 1)
         IN  shorter \cup {Append(q, x) : q \in shorter, x \in S}

Logs == SeqsUpTo(Messages, MaxRecords)

\* cookies as the browser reports them: name and value (other attributes
\* are not read by _setup_session)
Cookies == {[name |-> "a", value |-> "1"], [name |-> "a", value |-> "9"],
            [name |-> "b", value |-> "2"]}
CookieLists == SeqsUpTo(Cookies, MaxCookies)

Statuses == {200, 204, 404}
\* what session.request does: a response with a status, or RequestException
Outcomes == {[responded |-> TRUE, status |-> st] : st \in Statuses}
               \cup {[responded |-> FALSE, status |-> 0]}

(***************************************************************************)
(* Observations of one public call; reset when the next call starts.       *)
(***************************************************************************)
Event(op, target, timeout) == [op |-> op, target |-> target, timeout |-> timeout]

NoHeaders == [k \in {} |-> <<>>]
NoRequest == [sent |-> FALSE, session |-> 0, closed |-> FALSE, token |-> <<>>,
              cookies |-> NoHeaders,
              kwargs |-> [given |-> FALSE, headers |-> NoHeaders],
              headers |-> NoHeaders]
\* what a call returned: nothing (it raised), None, a Response, a JSON body
Returned(kind, status) == [kind |-> kind, status |-> status]
Nothing == Returned("nothing", 0)
ReturnedNone == Returned("None", 0)
NoCall == [op |-> "none", raised |-> NoErr, returned |-> Nothing]
Call(op, raised, returned) == [op |-> op, raised |-> raised, returned |-> returned]

NotHarvested == [read |-> FALSE, result |-> NoMatch]

\* the token and the cookie list an HTTP session was built from
AuthSession(token, cookies) == [token |-> token, cookies |-> cookies]
NoAuthSession == AuthSession(<<>>, <<>>)

ResetObservations ==
    /\ err' = NoErr
    /\ events' = <<>>
    /\ shots' = 0
    /\ logs' = <<>>
    /\ cookiesRead' = <<>>
    /\ harvested' = NotHarvested

(***************************************************************************)
(* Init: the state after IHKScraper(config), lines 48-58.                  *)
(***************************************************************************)
Init ==
    /\ mainPc \in {"none", "start"}
    /\ config \in [username : Usernames, password : Passwords]
    /\ mainPc = "start" => config = [username |-> "user", password |-> "secret"]
    /\ driver = 0
    /\ session = 0
    /\ bearer_token = <<>>
    /\ pc = "idle"
    /\ err = NoErr
    /\ launched = 0
    /\ quitCalls = [b \in {} |-> 0]
    /\ created = 0
    /\ jar = [s \in {} |-> NoHeaders]
    /\ closeCalls = [s \in {} |-> 0]
    /\ builtFrom = NoAuthSession
    /\ authCalls = 0
    /\ closeCount = 0
    /\ events = <<>>
    /\ shots = 0
    /\ logs = <<>>
    /\ cookiesRead = <<>>
    /\ preToken = <<>>
    /\ preSession = 0
    /\ lastCall = NoCall
    /\ lastRequest = NoRequest
    /\ harvested = NotHarvested
    /\ succeeded = FALSE

(***************************************************************************)
(* authenticate(), lines 214-245, one action per step of the flow.         *)
(***************************************************************************)
envVars == <<launched, quitCalls, created, jar, closeCalls, builtFrom>>
callVars == <<authCalls, closeCount>>
selfVars == <<driver, session, bearer_token>>

Did(e) == events' = Append(events, e)
Fail(e) == err' = e /\ pc' = "except"

\* entry of authenticate(): nothing has run yet
BeginAuthenticate ==
    /\ pc = "idle"
    /\ authCalls < MaxAuthCalls
    /\ authCalls' = authCalls + 1
    /\ pc' = "setup_browser"
    /\ preToken' = bearer_token
    /\ preSession' = session
    /\ lastCall' = NoCall
    /\ lastRequest' = NoRequest
    /\ ResetObservations
    /\ UNCHANGED <<config, selfVars, envVars, closeCount, succeeded>>

\* line 222 and _setup_browser, lines 75-105
SetupBrowser ==
    /\ pc = "setup_browser"
    /\ Did(Event("launch", "browser", 0))
    /\ \E started \in BOOLEAN :
          IF started
          THEN /\ launched' = launched + 1
               /\ quitCalls' = [b \in 1..(launched + 1) |->
                                   IF b <= launched THEN quitCalls[b] ELSE 0]
               /\ driver' = launched + 1
               /\ pc' = "homepage"
               /\ UNCHANGED err
          ELSE /\ Fail(Raised("WebDriverException", "Browser initialization failed", "launch"))
               /\ UNCHANGED <<launched, quitCalls, driver>>
    /\ UNCHANGED <<config, session, bearer_token, created, jar, closeCalls,
                   builtFrom, callVars, mainPc, shots, logs, cookiesRead, preToken,
                   preSession, lastCall, lastRequest, harvested, succeeded>>

stepFrame == <<config, selfVars, envVars, callVars, mainPc, shots, logs,
               cookiesRead, preToken, preSession, lastCall, lastRequest,
               harvested, succeeded>>

\* line 225: self.driver.get(self.config.base_url)
LoadHomepage ==
    /\ pc = "homepage"
    /\ Did(Event("get", base_url, 0))
    /\ \E loaded \in BOOLEAN :
          IF loaded THEN pc' = "consent" /\ UNCHANGED err
          ELSE Fail(Raised("WebDriverException", "navigation failed", "homepage"))
    /\ UNCHANGED stepFrame

\* variant: _accept_cookies without its except clause
ConsentTimeoutFatal == FALSE
\* lines 115-116: _accept_cookies catches the TimeoutException of its wait
ConsentTimeoutTolerated == TRUE

\* line 229 and _accept_cookies, lines 107-116
AcceptCookies ==
    /\ pc = "consent"
    /\ \E outcome \in {"clicked", "timeout", "click_failed"} :
          CASE outcome = "clicked" ->
                 /\ events' = events \o <<Event("wait", "consent", ConsentTimeout),
                                          Event("click", "consent", 0)>>
                 /\ pc' = "login"
                 /\ UNCHANGED err
            [] outcome = "timeout" ->
                 /\ Did(Event("wait", "consent", ConsentTimeout))
                 /\ IF ConsentTimeoutTolerated
                    THEN pc' = "login" /\ UNCHANGED err
                    ELSE Fail(Raised("TimeoutException", "consent", "consent"))
            [] outcome = "click_failed" ->
                 /\ events' = events \o <<Event("wait", "consent", ConsentTimeout),
                                          Event("click", "consent", 0)>>
                 /\ Fail(Raised("WebDriverException", "click failed", "consent"))
    /\ UNCHANGED stepFrame

\* line 126: the credentials check at the head of _perform_login
CredentialsMissing == config.username = "" \/ config.password = ""

\* line 232 and lines 126-127 of _perform_login
PerformLoginCheck ==
    /\ pc = "login"
    /\ IF CredentialsMissing
       THEN Fail(MissingCredentials)
       ELSE pc' = "signin" /\ UNCHANGED err
    /\ UNCHANGED events
    /\ UNCHANGED stepFrame

\* variant: the timeout of the wait is caught and the flow goes on, as in
\* _accept_cookies
WaitThenIgnoringTimeout(target, timeout, op, next) ==
    \E outcome \in {"done", "timeout", "failed"} :
       CASE outcome = "done" ->
              /\ events' = events \o <<Event("wait", target, timeout),
                                       Event(op, target, 0)>>
              /\ pc' = next
              /\ UNCHANGED err
         [] outcome = "timeout" ->
              /\ Did(Event("wait", target, timeout))
              /\ pc' = next
              /\ UNCHANGED err
         [] outcome = "failed" ->
              /\ events' = events \o <<Event("wait", target, timeout),
                                       Event(op, target, 0)>>
              /\ Fail(Raised("WebDriverException", target, target))

\* a WebDriverWait(...).until(...) followed by one interaction with the
\* element found; a timeout of the wait raises TimeoutException
WaitThen(target, timeout, op, next) ==
    \E outcome \in {"done", "timeout", "failed"} :
       CASE outcome = "done" ->
              /\ events' = events \o <<Event("wait", target, timeout),
                                       Event(op, target, 0)>>
              /\ pc' = next
              /\ UNCHANGED err
         [] outcome = "timeout" ->
              /\ Did(Event("wait", target, timeout))
              /\ Fail(Raised("TimeoutException", target, target))
         [] outcome = "failed" ->
              /\ events' = events \o <<Event("wait", target, timeout),
                                       Event(op, target, 0)>>
              /\ Fail(Raised("WebDriverException", target, target))

\* self.driver.find_element("id", "kc-login").click()
ClickLoginButton(target, next) ==
    \E found \in BOOLEAN :
       IF found
       THEN /\ Did(Event("click", target, 0))
            /\ pc' = next
            /\ UNCHANGED err
       ELSE /\ Did(Event("find", target, 0))
            /\ Fail(Raised("NoSuchElementException", target, target))

\* lines 131-135
ClickSignIn ==
    /\ pc = "signin"
    /\ WaitThen("signin", LoginTimeout, "click", "username")
    /\ UNCHANGED stepFrame

\* lines 138-141
EnterUsername ==
    /\ pc = "username"
    /\ WaitThen("username", LoginTimeout, "send_keys", "continue")
    /\ UNCHANGED stepFrame

\* line 144
ContinueToPassword ==
    /\ pc = "continue"
    /\ ClickLoginButton("continue", "password")
    /\ UNCHANGED stepFrame

\* lines 147-150
EnterPassword ==
    /\ pc = "password"
    /\ WaitThen("password", LoginTimeout, "send_keys", "submit")
    /\ UNCHANGED stepFrame

\* variant: authenticate() without its call of _extract_bearer_token
AfterLoginSkipsHarvest == "setup_session"
\* lines 232-235: _extract_bearer_token follows _perform_login
AfterLogin == "api_page"

\* line 151
SubmitPassword ==
    /\ pc = "submit"
    /\ ClickLoginButton("submit", AfterLogin)
    /\ UNCHANGED stepFrame

\* lines 174-175 of _extract_bearer_token
TriggerTokenUsage ==
    /\ pc = "api_page"
    /\ \E loaded \in BOOLEAN :
          IF loaded
          THEN /\ events' = events \o <<Event("get", "berufsbilder-check", 0),
                                        Event("sleep", "settle", SettleDelay)>>
               /\ pc' = "read_logs"
               /\ UNCHANGED err
          ELSE /\ Did(Event("get", "berufsbilder-check", 0))
               /\ Fail(Raised("WebDriverException", "navigation failed", "api_page"))
    /\ UNCHANGED stepFrame

\* the telemetry logs the browser hands to authenticate() in Spec; every log
\* of Logs is handed to it in SpecHarvest
SampleLogs == {<<MsgPlain>>, <<MsgOneToken>>, <<MsgTwoTokens>>}

\* lines 178-192 of _extract_bearer_token and the assignment of line 235
HarvestTokenFrom(TelemetryLogs) ==
    /\ pc = "read_logs"
    /\ Did(Event("get_log", "performance", 0))
    /\ \/ /\ Fail(Raised("WebDriverException", "get_log failed", "read_logs"))
          /\ UNCHANGED <<logs, harvested, bearer_token>>
       \/ \E log \in TelemetryLogs :
             /\ logs' = log
             /\ harvested' = [read |-> TRUE, result |-> ExtractToken(log)]
             /\ IF harvested'.result.found
                THEN /\ bearer_token' = harvested'.result.token
                     /\ pc' = "setup_session"
                     /\ UNCHANGED err
                ELSE /\ Fail(TokenNotFound)
                     /\ UNCHANGED bearer_token
    /\ UNCHANGED <<config, driver, session, envVars, callVars, mainPc, shots,
                   cookiesRead, preToken, preSession, lastCall, lastRequest,
                   succeeded>>

\* session.cookies.set(name, value) for each cookie in list order: a later
\* cookie of the same name replaces the earlier one
RECURSIVE CookieJarOf(_)
CookieJarOf(cookies) ==
    IF cookies = <<>> THEN NoHeaders
    ELSE LET n == Len(cookies)
             before == CookieJarOf(SubSeq(cookies, 1, n - 1))
             last == cookies[n]
         IN  [k \in DOMAIN before \cup {last.name} |->
                 IF k = last.name THEN last.value ELSE before[k]]

HarvestToken == HarvestTokenFrom(SampleLogs)
HarvestAnyLog == HarvestTokenFrom(Logs)

\* the cookie lists the browser reports in Spec; every list of CookieLists
\* is reported in SpecHarvest
SampleCookieLists ==
    {<<>>, <<[name |-> "a", value |-> "1"], [name |-> "b", value |-> "2"]>>}

\* line 238 and _setup_session, lines 198-212
SetupSessionFrom(ReportedCookies) ==
    /\ pc = "setup_session"
    /\ created' = created + 1
    /\ closeCalls' = [s \in 1..(created + 1) |->
                         IF s <= created THEN closeCalls[s] ELSE 0]
    /\ Did(Event("get_cookies", "browser", 0))
    /\ \/ /\ jar' = [s \in 1..(created + 1) |->
                        IF s <= created THEN jar[s] ELSE NoHeaders]
          /\ Fail(Raised("WebDriverException", "get_cookies failed", "cookies"))
          /\ UNCHANGED <<session, builtFrom, cookiesRead, lastCall, succeeded>>
       \/ \E cookies \in ReportedCookies :
             /\ cookiesRead' = cookies
             /\ jar' = [s \in 1..(created + 1) |->
                           IF s <= created THEN jar[s] ELSE CookieJarOf(cookies)]
             /\ builtFrom' = AuthSession(bearer_token, cookies)
             /\ session' = created + 1
             /\ pc' = "idle"
             /\ lastCall' = Call("authenticate", NoErr, ReturnedNone)
             /\ succeeded' = TRUE
             /\ UNCHANGED err
    /\ UNCHANGED <<config, driver, bearer_token, launched, quitCalls, callVars,
                   mainPc, shots, logs, preToken, preSession, lastRequest,
                   harvested>>

SetupSession == SetupSessionFrom(SampleCookieLists)
SetupSessionAnyCookies == SetupSessionFrom(CookieLists)

\* the exception that leaves authenticate(): the bare `raise` of line 245
\* re-raises the exception caught at line 242
\* variant: an error of the screenshot replaces the exception
PropagatedMasked(original, screenshotError) ==
    IF screenshotError = NoErr THEN original ELSE screenshotError
Propagated(original, screenshotError) == original

ScreenshotFailed == Raised("WebDriverException", "screenshot failed", "screenshot")

\* lines 242-245 and _save_error_screenshot, lines 247-255
SaveErrorScreenshot ==
    /\ pc = "except"
    /\ IF driver # 0
       THEN /\ shots' = shots + 1
            /\ \E saved \in BOOLEAN :
                  /\ Did(Event("screenshot", IF saved THEN "saved" ELSE "failed", 0))
                  /\ lastCall' = Call("authenticate",
                                      Propagated(err, IF saved THEN NoErr ELSE ScreenshotFailed),
                                      Nothing)
       ELSE /\ lastCall' = Call("authenticate", Propagated(err, NoErr), Nothing)
            /\ UNCHANGED <<shots, events>>
    /\ pc' = "idle"
    /\ UNCHANGED <<config, selfVars, envVars, callVars, mainPc, logs, err,
                   cookiesRead, preToken, preSession, lastRequest, harvested,
                   succeeded>>

(***************************************************************************)
(* api_request(), lines 257-300.                                           *)
(***************************************************************************)
FixedHeaders ==
    [k \in {"Accept", "Authorization", "Referer", "X-Bereich-Intern-Extern",
            "X-Ex-Abb", "X-Ihk-Nummer", "X-Organisation-Nummer-Lang",
            "User-Agent"} |->
        CASE k = "Accept" -> <<"application/json">>
          [] k = "Authorization" -> <<"Bearer ">> \o bearer_token
          [] k = "Referer" -> <<base_url, "/">>
          [] k = "X-Bereich-Intern-Extern" -> <<"extern">>
          [] k = "X-Ex-Abb" -> <<"false">>
          [] k = "X-Ihk-Nummer" -> <<ihk_nummer>>
          [] k = "X-Organisation-Nummer-Lang" -> <<organisation_nummer>>
          [] k = "User-Agent" -> <<user_agent>>]

\* variant: the entries already present win
UpdateKeepingOld(d, e) ==
    [k \in DOMAIN d \cup DOMAIN e |-> IF k \in DOMAIN d THEN d[k] ELSE e[k]]
\* dict.update: the argument's entries win
Update(d, e) ==
    [k \in DOMAIN d \cup DOMAIN e |-> IF k \in DOMAIN e THEN e[k] ELSE d[k]]

\* lines 278-291; kwargs is [given, headers]: whether 'headers' is in kwargs
MergedHeaders(kwargs) ==
    IF kwargs.given THEN Update(FixedHeaders, kwargs.headers) ELSE FixedHeaders

CallerKeys == {"Accept", "Authorization", "X-Trace"}
CallerValues == {<<"text/csv">>, <<"Bearer ", "o">>}
CallerHeaders == UNION {[K -> CallerValues] : K \in SUBSET CallerKeys}
NoKwargs == [given |-> FALSE, headers |-> NoHeaders]
CallerKwargs == {NoKwargs} \cup {[given |-> TRUE, headers |-> h] : h \in CallerHeaders}

\* the keyword arguments callers pass in Spec; every element of CallerKwargs
\* is passed in SpecHeaders
SampleKwargs == {NoKwargs,
                 [given |-> TRUE, headers |-> [k \in {"Accept"} |-> <<"text/csv">>]],
                 [given |-> TRUE, headers |-> [k \in {"X-Trace"} |-> <<"text/csv">>]]}

\* variant: the guard without its test of self.session
NotAuthenticatedTokenOnly == bearer_token = <<>>
\* line 273
NotAuthenticatedGuard == session = 0 \/ bearer_token = <<>>

RequestFailed == Raised("RequestException", "request failed", "api_request")

\* line 294: the request handed to self.session.request
SendRequest(kwargs) ==
    lastRequest' = [sent |-> TRUE,
                    session |-> session,
                    closed |-> IF session = 0 THEN FALSE ELSE closeCalls[session] > 0,
                    token |-> bearer_token,
                    cookies |-> IF session = 0 THEN NoHeaders ELSE jar[session],
                    kwargs |-> kwargs,
                    headers |-> MergedHeaders(kwargs)]

ApiRequestBody(Kwargs) ==
    /\ pc = "idle"
    /\ ResetObservations
    /\ IF NotAuthenticatedGuard
       THEN /\ lastRequest' = NoRequest
            /\ lastCall' = Call("api_request", NotAuthenticated, Nothing)
       ELSE \E kwargs \in Kwargs, outcome \in Outcomes :
               /\ SendRequest(kwargs)
               /\ lastCall' = IF outcome.responded
                              THEN Call("api_request", NoErr,
                                        Returned("response", outcome.status))
                              ELSE Call("api_request", RequestFailed, Nothing)
    /\ UNCHANGED <<config, selfVars, envVars, callVars, pc, preToken, preSession,
                   succeeded>>

(***************************************************************************)
(* get_berufsbilder_check(), lines 302-319.                                *)
(***************************************************************************)
\* requests' Response.raise_for_status raises for 4xx and 5xx
RaiseForStatusRaises(status) == status >= 400 /\ status < 600

HttpError(status) ==
    [type |-> "HTTPError", what |-> "status and body", at |-> "raise_for_status",
     status |-> status]

AccessorResult(status) ==
    IF status = StatusOk
    THEN Call("get_berufsbilder_check", NoErr, Returned("json", status))
    ELSE IF RaiseForStatusRaises(status)
         THEN Call("get_berufsbilder_check", HttpError(status), Nothing)
         ELSE Call("get_berufsbilder_check", NoErr, ReturnedNone)

GetBerufsbilderCheckBody ==
    /\ pc = "idle"
    /\ ResetObservations
    /\ IF NotAuthenticatedGuard
       THEN /\ lastRequest' = NoRequest
            /\ lastCall' = Call("get_berufsbilder_check", NotAuthenticated, Nothing)
       ELSE \E outcome \in Outcomes :
               /\ SendRequest(NoKwargs)
               /\ lastCall' = IF outcome.responded
                              THEN AccessorResult(outcome.status)
                              ELSE Call("get_berufsbilder_check", RequestFailed, Nothing)
    /\ UNCHANGED <<config, selfVars, envVars, callVars, pc, preToken, preSession,
                   succeeded>>

(***************************************************************************)
(* close(), lines 321-329.  driver.quit() may raise; self.driver and       *)
(* self.session are not reset.                                             *)
(***************************************************************************)
QuitFailed == Raised("WebDriverException", "quit failed", "quit")

CloseBody ==
    /\ pc = "idle"
    /\ closeCount < MaxCloseCalls
    /\ closeCount' = closeCount + 1
    /\ lastRequest' = NoRequest
    /\ ResetObservations
    /\ \E quitRaises \in BOOLEAN :
          /\ quitCalls' = IF driver # 0
                          THEN [quitCalls EXCEPT ![driver] = @ + 1]
                          ELSE quitCalls
          /\ IF driver # 0 /\ quitRaises
             THEN /\ lastCall' = Call("close", QuitFailed, Nothing)
                  /\ UNCHANGED closeCalls
             ELSE /\ quitRaises = FALSE
                  /\ closeCalls' = IF session # 0
                                   THEN [closeCalls EXCEPT ![session] = @ + 1]
                                   ELSE closeCalls
                  /\ lastCall' = Call("close", NoErr, ReturnedNone)
    /\ UNCHANGED <<config, selfVars, launched, created, jar, builtFrom,
                   authCalls, pc, preToken, preSession, succeeded>>

(***************************************************************************)
(* The callers: any sequence of public calls, and main(), lines 332-359.   *)
(***************************************************************************)
Authenticate == mainPc = "none" /\ BeginAuthenticate /\ UNCHANGED mainPc
ApiRequest == mainPc = "none" /\ ApiRequestBody(SampleKwargs) /\ UNCHANGED mainPc
ApiRequestAnyKwargs == mainPc = "none" /\ ApiRequestBody(CallerKwargs) /\ UNCHANGED mainPc
GetBerufsbilderCheck == mainPc = "none" /\ GetBerufsbilderCheckBody /\ UNCHANGED mainPc
Close == mainPc = "none" /\ CloseBody /\ UNCHANGED mainPc

\* line 344
MainAuthenticate ==
    /\ mainPc = "start"
    /\ BeginAuthenticate
    /\ mainPc' = "authenticating"

\* lines 355-356: authenticate() raised
MainExcept ==
    /\ mainPc = "authenticating"
    /\ pc = "idle"
    /\ lastCall.raised # NoErr
    /\ mainPc' = "finally"
    /\ UNCHANGED <<config, selfVars, envVars, callVars, pc, err, events, shots,
                   logs, cookiesRead, preToken, preSession, lastCall,
                   lastRequest, harvested, succeeded>>

\* lines 347-356: the API call; its result is printed or its error reported
MainGetBerufsbilderCheck ==
    /\ mainPc = "authenticating"
    /\ pc = "idle"
    /\ lastCall.raised = NoErr
    /\ GetBerufsbilderCheckBody
    /\ mainPc' = "finally"

\* lines 358-359
MainFinally ==
    /\ mainPc = "finally"
    /\ CloseBody
    /\ mainPc' = "exit"

Next ==
    \/ Authenticate
    \/ SetupBrowser
    \/ LoadHomepage
    \/ AcceptCookies
    \/ PerformLoginCheck
    \/ ClickSignIn
    \/ EnterUsername
    \/ ContinueToPassword
    \/ EnterPassword
    \/ SubmitPassword
    \/ TriggerTokenUsage
    \/ HarvestToken
    \/ SetupSession
    \/ SaveErrorScreenshot
    \/ ApiRequest
    \/ GetBerufsbilderCheck
    \/ Close
    \/ MainAuthenticate
    \/ MainExcept
    \/ MainGetBerufsbilderCheck
    \/ MainFinally

Spec == Init /\ [][Next]_vars

(***************************************************************************)
(* SpecHarvest: the tail of authenticate() from the telemetry read on      *)
(* (lines 178-192, 235, 238-245), for every telemetry log of Logs and      *)
(* every cookie list of CookieLists.  It starts where Spec arrives after   *)
(* line 175, in a first authenticate() or in one that follows a            *)
(* successful one.                                                         *)
(***************************************************************************)
EventsBeforeHarvest(consentClicked) ==
    <<Event("launch", "browser", 0), Event("get", base_url, 0),
      Event("wait", "consent", ConsentTimeout)>>
    \o (IF consentClicked THEN <<Event("click", "consent", 0)>> ELSE <<>>)
    \o <<Event("wait", "signin", LoginTimeout), Event("click", "signin", 0),
         Event("wait", "username", LoginTimeout), Event("send_keys", "username", 0),
         Event("click", "continue", 0),
         Event("wait", "password", LoginTimeout), Event("send_keys", "password", 0),
         Event("click", "submit", 0),
         Event("get", "berufsbilder-check", 0), Event("sleep", "settle", SettleDelay)>>

FullCredentials == [username |-> "user", password |-> "secret"]

InitHarvest ==
    /\ mainPc = "none"
    /\ config = FullCredentials
    /\ pc = "read_logs"
    /\ err = NoErr
    /\ \/ /\ authCalls = 1
          /\ launched = 1 /\ driver = 1 /\ quitCalls = [b \in {1} |-> 0]
          /\ created = 0 /\ session = 0
          /\ jar = [s \in {} |-> NoHeaders] /\ closeCalls = [s \in {} |-> 0]
          /\ builtFrom = NoAuthSession
          /\ bearer_token = <<>>
          /\ succeeded = FALSE
       \/ /\ authCalls = 2
          /\ launched = 2 /\ driver = 2 /\ quitCalls = [b \in {1, 2} |-> 0]
          /\ created = 1 /\ session = 1
          /\ \E c \in SampleCookieLists :
                /\ jar = [s \in {1} |-> CookieJarOf(c)]
                /\ builtFrom = AuthSession(OtherToken, c)
          /\ closeCalls = [s \in {1} |-> 0]
          /\ bearer_token = OtherToken
          /\ succeeded = TRUE
    /\ preToken = bearer_token
    /\ preSession = session
    /\ closeCount = 0
    /\ events \in {EventsBeforeHarvest(clicked) : clicked \in BOOLEAN}
    /\ shots = 0
    /\ logs = <<>>
    /\ cookiesRead = <<>>
    /\ lastCall = NoCall
    /\ lastRequest = NoRequest
    /\ harvested = NotHarvested

NextHarvest ==
    \/ HarvestAnyLog
    \/ SetupSessionAnyCookies
    \/ SaveErrorScreenshot

SpecHarvest == InitHarvest /\ [][NextHarvest]_vars

(***************************************************************************)
(* SpecHeaders: api_request() (lines 257-300) for every keyword argument   *)
(* of CallerKwargs, from the state in which a successful authenticate()    *)
(* of Spec leaves the scraper.                                             *)
(***************************************************************************)
EventsOfSuccess(consentClicked) ==
    EventsBeforeHarvest(consentClicked)
    \o <<Event("get_log", "performance", 0), Event("get_cookies", "browser", 0)>>

InitHeaders ==
    /\ mainPc = "none"
    /\ config = FullCredentials
    /\ pc = "idle"
    /\ err = NoErr
    /\ authCalls = 1
    /\ launched = 1 /\ driver = 1 /\ quitCalls = [b \in {1} |-> 0]
    /\ created = 1 /\ session = 1
    /\ closeCalls = [s \in {1} |-> 0]
    /\ closeCount = 0
    /\ preToken = <<>>
    /\ preSession = 0
    /\ shots = 0
    /\ events \in {EventsOfSuccess(clicked) : clicked \in BOOLEAN}
    /\ logs \in {<<MsgOneToken>>, <<MsgTwoTokens>>}
    /\ harvested = [read |-> TRUE, result |-> ExtractToken(logs)]
    /\ bearer_token = harvested.result.token
    /\ cookiesRead \in SampleCookieLists
    /\ jar = [s \in {1} |-> CookieJarOf(cookiesRead)]
    /\ builtFrom = AuthSession(bearer_token, cookiesRead)
    /\ lastCall = Call("authenticate", NoErr, ReturnedNone)
    /\ lastRequest = NoRequest
    /\ succeeded = TRUE

NextHeaders == ApiRequestAnyKwargs

SpecHeaders == InitHeaders /\ [][NextHeaders]_vars

(***************************************************************************)
(* Properties.                                                             *)
(***************************************************************************)
AuthenticateReturned == pc = "idle" /\ lastCall.op = "authenticate"
RequestCallReturned == lastCall.op \in {"api_request", "get_berufsbilder_check"}

\* C1: when the username or the password is empty, authenticate() fails
\* with the missing-credentials error before any browser interaction: no
\* browser launched, no navigation, no wait, no click.
C1_MissingCredentialsBeforeBrowser ==
    (AuthenticateReturned /\ lastCall.raised = MissingCredentials)
        => events = <<>>

\* C2: api_request() issues an HTTP request only when the scraper holds a
\* complete AuthSession: a non-empty token and a non-empty cookie jar.
C2_RequestOnlyWithCompleteSession ==
    lastRequest.sent => (lastRequest.token # <<>> /\ lastRequest.cookies # NoHeaders)

\* C3: while no authenticate() call has completed successfully, api_request()
\* fails with the not-authenticated error and issues no HTTP request.
C3_NotAuthenticatedWithoutSuccess ==
    (RequestCallReturned /\ ~succeeded)
        => (lastCall.raised = NotAuthenticated /\ ~lastRequest.sent)

\* C3 witness: api_request() refused after an authenticate() that harvested
\* a token and then failed before the HTTP session was built.
C3_Witness ==
    /\ lastCall.op = "api_request"
    /\ ~succeeded
    /\ bearer_token # <<>>
    /\ session = 0
    /\ lastCall.raised = NotAuthenticated
    /\ ~lastRequest.sent

\* The telemetry log as the claims read it: an ordered sequence of records.
\* An occurrence is a position of a record at which `Bearer ` stands.
LiteralAt(record, i) ==
    /\ i + 6 <= Len(record)
    /\ SubSeq(record, i, i + 6) = BearerLiteral

ContainsBearerLiteral(log) ==
    \E r \in 1..Len(log) : \E i \in 1..Len(log[r]) : LiteralAt(log[r], i)

\* occurrences that are followed by at least one token character
TokenOccurrences(record) ==
    {i \in 1..Len(record) :
        /\ LiteralAt(record, i)
        /\ i + 7 <= Len(record)
        /\ record[i + 7] \in TokenChars}

HasBearerToken(log) == \E r \in 1..Len(log) : TokenOccurrences(log[r]) # {}

\* the maximal run of token characters after the first occurrence in log order
FirstBearerToken(log) ==
    LET r == CHOOSE q \in 1..Len(log) :
                /\ TokenOccurrences(log[q]) # {}
                /\ \A p \in 1..(q - 1) : TokenOccurrences(log[p]) = {}
        record == log[r]
        i == CHOOSE k \in TokenOccurrences(record) :
                \A m \in TokenOccurrences(record) : k <= m
        last == CHOOSE e \in (i + 7)..Len(record) :
                   /\ \A k \in (i + 7)..e : record[k] \in TokenChars
                   /\ e = Len(record) \/ record[e + 1] \notin TokenChars
    IN  SubSeq(record, i + 7, last)

\* C4: for every telemetry log with an occurrence of `Bearer ` followed by
\* token characters, the harvester returns the maximal run of token
\* characters after the first such occurrence in log order; of two distinct
\* tokens it returns the earlier, and `Bearer abc.def-123_ABC` alone yields
\* abc.def-123_ABC.
C4_FirstTokenHarvested ==
    /\ (harvested.read /\ HasBearerToken(logs))
          => /\ harvested.result = [found |-> TRUE, token |-> FirstBearerToken(logs)]
             /\ bearer_token = FirstBearerToken(logs)
    /\ (harvested.read /\ logs = <<MsgOneToken>>)
          => harvested.result.token = SpecToken
    /\ (harvested.read /\ logs = <<MsgTwoTokens>>)
          => harvested.result.token = OtherToken

\* C4 witness: a log with two distinct bearer tokens, in two records, has
\* been searched and the earlier token was returned.
C4_Witness ==
    /\ harvested.read
    /\ logs = <<MsgTwoTokens, MsgOneToken>>
    /\ harvested.result.found
    /\ harvested.result.token = OtherToken
    /\ bearer_token = OtherToken

\* C5: for every telemetry log without a `Bearer ` substring the harvest
\* fails with the token-not-found error, authenticate() fails with that
\* error, no cookies are read, no HTTP session is built, and bearer_token and
\* session keep the values they had before the call.
C5_NoBearerNoToken ==
    (harvested.read /\ ~ContainsBearerLiteral(logs))
        => /\ ~harvested.result.found
           /\ err = TokenNotFound
           /\ pc \in {"except", "idle"}
           /\ pc = "idle" => lastCall = Call("authenticate", TokenNotFound, Nothing)
           /\ cookiesRead = <<>>
           /\ \A i \in 1..Len(events) : events[i].op # "get_cookies"
           /\ bearer_token = preToken
           /\ session = preSession

\* C5 witness: a re-authentication whose log has the literal split over two
\* records has failed and left the earlier token and session in place.
C5_Witness ==
    /\ harvested.read
    /\ logs = <<MsgSplitHead, MsgSplitTail>>
    /\ AuthenticateReturned
    /\ lastCall.raised = TokenNotFound
    /\ preToken = OtherToken
    /\ bearer_token = OtherToken
    /\ session = 1

\* C6: close() is idempotent: a second close() does not tear down an
\* already released browser or HTTP session again.
C6_TeardownAtMostOnce ==
    /\ \A b \in DOMAIN quitCalls : quitCalls[b] <= 1
    /\ \A s \in DOMAIN closeCalls : closeCalls[s] <= 1

\* C7: in every execution of main(), close() has been called exactly once,
\* after the last browser or HTTP activity, and at exit every browser
\* launched and the HTTP session built have been released.
C7_MainReleasesEverything ==
    mainPc = "exit"
        => /\ closeCount = 1
           /\ lastCall.op = "close"
           /\ \A b \in 1..launched : quitCalls[b] >= 1
           /\ session # 0 => closeCalls[session] >= 1

\* C8: when a step of authenticate() fails after the browser exists, exactly
\* one screenshot is attempted before the error leaves authenticate(), and
\* the error raised is the step's error unchanged, whether or not the
\* screenshot succeeds.
C8_ScreenshotThenOriginalError ==
    /\ pc # "idle" => shots = 0
    /\ (AuthenticateReturned /\ err # NoErr /\ err.at # "launch")
          => /\ shots = 1
             /\ events[Len(events)].op = "screenshot"
             /\ \A i \in 1..(Len(events) - 1) : events[i].op # "screenshot"
             /\ lastCall.raised = err

\* C8 witness: the token search failed, the screenshot failed too, and
\* authenticate() raised the token-not-found error.
C8_Witness ==
    /\ AuthenticateReturned
    /\ err = TokenNotFound
    /\ shots = 1
    /\ events[Len(events)] = Event("screenshot", "failed", 0)
    /\ lastCall.raised = TokenNotFound

\* the wait on `target` at position i of events timed out: no interaction
\* with the element followed it
TimedOut(i) ==
    /\ events[i].op = "wait"
    /\ i = Len(events) \/ events[i + 1].target # events[i].target

\* C9: a timeout of the 3-unit consent wait ends the consent step without
\* error and without a click, and authenticate() goes on to the sign-in
\* step; the timeout of every other wait is fatal.
C9_OnlyConsentTimeoutTolerated ==
    \A i \in 1..Len(events) :
        /\ (TimedOut(i) /\ events[i].target = "consent")
              => /\ events[i].timeout = ConsentTimeout
                 /\ err.at # "consent"
                 /\ \A k \in 1..Len(events) :
                       ~(events[k].op = "click" /\ events[k].target = "consent")
                 /\ i = Len(events)
                       => \/ pc \in {"login", "signin"} /\ err = NoErr
                          \/ pc = "except" /\ err = MissingCredentials
                 /\ i < Len(events)
                       => \/ events[i + 1] = Event("wait", "signin", LoginTimeout)
                          \/ /\ events[i + 1].op = "screenshot"
                             /\ err = MissingCredentials
        /\ (TimedOut(i) /\ events[i].target # "consent")
              => /\ err = Raised("TimeoutException", events[i].target, events[i].target)
                 /\ pc \in {"except", "idle"}
                 /\ pc = "idle" => lastCall.raised = err
                 /\ \A k \in (i + 1)..Len(events) : events[k].op = "screenshot"

\* C9 witness: the consent wait timed out, nothing was clicked for it, and
\* the sign-in link has been waited for and clicked.
C9_Witness ==
    /\ Len(events) >= 5
    /\ events[3] = Event("wait", "consent", ConsentTimeout)
    /\ events[4] = Event("wait", "signin", LoginTimeout)
    /\ events[5] = Event("click", "signin", 0)
    /\ err = NoErr

\* C10: the headers sent are the fixed headers overridden by the caller's
\* headers on key collision: every caller key carries the caller's value (a
\* caller's Accept replaces application/json) and every other fixed header
\* is sent with its fixed value.
C10_CallerHeadersOverride ==
    lastRequest.sent
        => LET caller == lastRequest.kwargs.headers
               sent == lastRequest.headers
           IN  /\ DOMAIN sent = DOMAIN FixedHeaders \cup DOMAIN caller
               /\ \A k \in DOMAIN caller : sent[k] = caller[k]
               /\ \A k \in DOMAIN FixedHeaders \ DOMAIN caller :
                     sent[k] = FixedHeaders[k]
               /\ "Accept" \notin DOMAIN caller
                     => sent["Accept"] = <<"application/json">>
               /\ "Authorization" \notin DOMAIN caller
                     => sent["Authorization"] = <<"Bearer ">> \o lastRequest.token

\* C10 witness: a request was sent whose caller supplied Accept and a header
\* outside the fixed set; Accept carries the caller's value.
C10_Witness ==
    /\ lastRequest.sent
    /\ lastRequest.kwargs.given
    /\ DOMAIN lastRequest.kwargs.headers = {"Accept", "X-Trace"}
    /\ lastRequest.headers["Accept"] = <<"text/csv">>
    /\ lastRequest.headers["X-Trace"] = lastRequest.kwargs.headers["X-Trace"]
    /\ lastRequest.headers["Referer"] = <<base_url, "/">>

\* C11: after a successful authenticate() that read the cookies C and
\* harvested the token T, every HTTP request issued through the HTTP session
\* it built carries all cookies of C and the header Authorization: Bearer T.
C11_RequestsCarryCookiesAndToken ==
    lastRequest.sent
        => /\ \A i \in 1..Len(builtFrom.cookies) :
                 LET cookie == builtFrom.cookies[i]
                 IN  /\ cookie.name \in DOMAIN lastRequest.cookies
                     /\ lastRequest.cookies[cookie.name] = cookie.value
           /\ lastRequest.headers["Authorization"] = <<"Bearer ">> \o builtFrom.token

\* C12: for every HTTP status the API returns, get_berufsbilder_check()
\* either returns the JSON body of the response (success status) or raises
\* an HTTP error carrying the status; it never returns normally without a
\* body.
C12_AccessorBodyOrHttpError ==
    (/\ lastCall.op = "get_berufsbilder_check"
     /\ lastRequest.sent
     /\ lastCall.raised # RequestFailed)
        => \/ /\ lastCall.raised = NoErr
              /\ lastCall.returned.kind = "json"
           \/ /\ lastCall.raised.type = "HTTPError"
              /\ lastCall.raised.status # 0
              /\ lastCall.returned = Nothing

\* the steps of the flow in the order the claim gives them, as (operation,
\* target) pairs; the click on the consent control is the only optional one
AuthenticationSteps ==
    << <<"launch", "browser">>, <<"get", base_url>>,
       <<"wait", "consent">>, <<"click", "consent">>,
       <<"wait", "signin">>, <<"click", "signin">>,
       <<"wait", "username">>, <<"send_keys", "username">>, <<"click", "continue">>,
       <<"wait", "password">>, <<"send_keys", "password">>, <<"click", "submit">>,
       <<"get", "berufsbilder-check">>, <<"sleep", "settle">>,
       <<"get_log", "performance">>, <<"get_cookies", "browser">> >>

StepsWithoutConsentClick ==
    SubSeq(AuthenticationSteps, 1, 3) \o SubSeq(AuthenticationSteps, 5, 16)

StepsOf(evs) == [i \in 1..Len(evs) |-> <<evs[i].op, evs[i].target>>]

\* C13: in every successful authenticate() the steps occur in the order
\* launch, homepage, consent attempt, sign-in click, username entry and
\* submit, password entry and submit, navigation to the authenticated route,
\* settle delay, one telemetry read, token match, one cookie read into a
\* fresh HTTP session, each at most once; the HTTP session is built only
\* after a token has been harvested, and the scraper passes for
\* authenticated only after both exist.
C13_StepsInOrderOnce ==
    /\ (AuthenticateReturned /\ lastCall.raised = NoErr)
          => /\ StepsOf(events) \in {AuthenticationSteps, StepsWithoutConsentClick}
             /\ \E i \in 1..Len(events) :
                   events[i] = Event("sleep", "settle", SettleDelay)
             /\ harvested.read
             /\ harvested.result.found
             /\ bearer_token = harvested.result.token
             /\ bearer_token # <<>>
             /\ session = created
             /\ session # preSession
             /\ closeCalls[session] = 0
             /\ builtFrom = AuthSession(bearer_token, cookiesRead)
    /\ ((pc # "idle" \/ AuthenticateReturned) /\ session # preSession)
          => /\ harvested.result.found
             /\ lastCall.raised = NoErr
    /\ pc = "setup_session" => (harvested.read /\ harvested.result.found)
    /\ ~NotAuthenticatedGuard => succeeded

\* C13 witness: a second authenticate() has succeeded without a click on
\* the consent control and has replaced the HTTP session of the first.
C13_Witness ==
    /\ AuthenticateReturned
    /\ lastCall.raised = NoErr
    /\ StepsOf(events) = StepsWithoutConsentClick
    /\ preSession = 1
    /\ session = 2

\* the waits of _perform_login: sign-in link, username field, password field
FatalWaits == {"signin", "username", "password"}

\* C14: a timeout of the wait for the sign-in link, the username field or
\* the password field is fatal for the attempt: authenticate() fails with
\* that timeout error, no later step of the flow is executed (no credential
\* typed, no navigation to the authenticated route, no telemetry read, no
\* cookie read), and bearer_token and session keep the values they had
\* before the call.
C14_LoginTimeoutFatal ==
    \A i \in 1..Len(events) :
        (TimedOut(i) /\ events[i].target \in FatalWaits)
            => /\ events[i].timeout = LoginTimeout
               /\ err = Raised("TimeoutException", events[i].target, events[i].target)
               /\ pc \in {"except", "idle"}
               /\ pc = "idle" => lastCall = Call("authenticate", err, Nothing)
               /\ \A k \in (i + 1)..Len(events) : events[k].op = "screenshot"
               /\ \A k \in 1..Len(events) :
                     events[k].op \notin {"get_log", "get_cookies", "sleep"}
               /\ ~harvested.read
               /\ logs = <<>>
               /\ cookiesRead = <<>>
               /\ bearer_token = preToken
               /\ session = preSession

\* C14 witness: in a re-authentication the username was typed, the wait for
\* the password field timed out, and authenticate() has raised the timeout
\* with the earlier token and session still in place.
C14_Witness ==
    /\ AuthenticateReturned
    /\ lastCall.raised = Raised("TimeoutException", "password", "password")
    /\ \E i \in 1..Len(events) :
          /\ events[i] = Event("wait", "password", LoginTimeout)
          /\ TimedOut(i)
          /\ events[i - 2] = Event("send_keys", "username", 0)
    /\ preToken # <<>>
    /\ bearer_token = preToken
    /\ preSession = 1
    /\ session = 1

\* C15: the (bearer token, cookie jar) pair that api_request() uses always
\* consists of a token and cookies obtained in the same authentication
\* attempt; an authenticate() on a scraper that holds such a pair either
\* replaces both together (on success) or leaves both unchanged (on failure).
C15_TokenAndCookiesOfOneAttempt ==
    /\ lastRequest.sent
          => /\ lastRequest.token = builtFrom.token
             /\ lastRequest.cookies = CookieJarOf(builtFrom.cookies)
    /\ (AuthenticateReturned /\ preSession # 0)
          => IF lastCall.raised = NoErr
             THEN /\ session # preSession
                  /\ builtFrom = AuthSession(bearer_token, cookiesRead)
             ELSE /\ session = preSession
                  /\ bearer_token = preToken

\* C16: close() is non-throwing and releases all resources: also when the
\* teardown of the browser fails, close() closes the HTTP session that
\* exists and returns without raising.
C16_CloseNeverRaises ==
    (lastCall.op = "close" /\ driver # 0 /\ session # 0)
        => /\ lastCall.raised = NoErr
           /\ closeCalls[session] >= 1

\* the (name, value) pairs of a cookie list and of a cookie store
PairsReported(cookies) ==
    {<<cookies[i].name, cookies[i].value>> : i \in 1..Len(cookies)}
PairsStored(store) == {<<k, store[k]>> : k \in DOMAIN store}

\* C17: the step that builds the HTTP session is pure state transfer: it
\* issues no navigation and no network call, and after it the cookie store
\* of the fresh HTTP session holds exactly the (name, value) pairs of the
\* cookies the browser reported, none dropped, added or altered.
C17_CookiesCopiedVerbatim ==
    (AuthenticateReturned /\ lastCall.raised = NoErr)
        => /\ PairsStored(jar[session]) = PairsReported(cookiesRead)
           /\ events[Len(events)] = Event("get_cookies", "browser", 0)
           /\ events[Len(events) - 1] = Event("get_log", "performance", 0)

\* browser instances that were launched and not yet quit
LiveBrowsers == {b \in 1..launched : quitCalls[b] = 0}

\* C18: for any sequence of authenticate() and close() calls, at most one
\* launched and not yet quit browser instance exists at any time, and after
\* close() has returned none remains: a repeated authenticate() does not
\* orphan the browser of an earlier attempt.
C18_AtMostOneLiveBrowser ==
    /\ Cardinality(LiveBrowsers) <= 1
    /\ (lastCall.op = "close" /\ lastCall.raised = NoErr) => LiveBrowsers = {}

\* C19: closed is terminal for API use: once close() has closed the HTTP
\* session, a later api_request() issues no HTTP request through it (it
\* fails instead) unless a new authenticate() has succeeded in between.
C19_NoRequestThroughClosedSession ==
    lastRequest.sent => ~lastRequest.closed

====
